---- MODULE Spec2Model ----
(***************************************************************************)
(* spfetch: the retry decorator retry_on_429 (src/spfetch/utils.py) and    *)
(* the SharePointClient operations built on it (src/spfetch/client.py).    *)
(*                                                                         *)
(* Two specifications share the decorator's handler (HandleFailure):       *)
(*   SpecRetry  one call of a function decorated with                      *)
(*              retry_on_429(max_retries, base_delay), for every           *)
(*              max_retries in 0..MaxRetriesBound;                         *)
(*   Spec       one call of a public client operation (download, read_df,  *)
(*              ls) with its nested decorated helpers.                     *)
(* Durations are counted in tenths of a second.                            *)
(***************************************************************************)
EXTENDS Integers, Sequences, FiniteSets, TLC

\* ------------------------------------------------------------------ bounds
\* largest max_retries tried in SpecRetry
MaxRetriesBound == 3
\* longest body a content response streams, in chunks
MaxChunks == 2
\* longest chunk, in bytes
MaxChunkLen == 2
\* largest size the metadata body reports
MaxSize == 2

\* ------------------------------------------------------- program constants
SiteMaxRetries == 3
SizeMaxRetries == 3
DownloadMaxRetries == 5
ReadDfMaxRetries == 3
LsMaxRetries == 3
\* base_delay = 1.0 s, the decorator's default, in tenths of a second
DefaultBaseDelay == 10

\* ----------------------------------------------------------- Retry-After
\* A header value is a string, modelled as its sequence of characters.
Digits == <<"0", "1", "2", "3", "4", "5", "6", "7", "8", "9">>

IsDigit(c) == \E i \in 1..Len(Digits) : Digits[i] = c

DigitVal(c) == (CHOOSE i \in 1..Len(Digits) : Digits[i] = c) - 1

RECURSIVE IntVal(_)
IntVal(s) == IF s = <<>> THEN 0
             ELSE IntVal(SubSeq(s, 1, Len(s) - 1)) * 10 + DigitVal(s[Len(s)])

\* float(str): digits with at most one ".", at least one digit; anything
\* else raises ValueError.  The value is in tenths of a second (the header
\* values used carry at most one fractional digit).
ParseFloat(s) ==
    LET dots == {i \in 1..Len(s) : s[i] = "."}
        dot  == IF dots = {} THEN Len(s) + 1 ELSE CHOOSE i \in dots : TRUE
        ip   == SubSeq(s, 1, dot - 1)
        fp   == SubSeq(s, dot + 1, Len(s))
        ok   == /\ Cardinality(dots) <= 1
                /\ \A i \in 1..Len(ip) : IsDigit(ip[i])
                /\ \A i \in 1..Len(fp) : IsDigit(fp[i])
                /\ Len(ip) + Len(fp) >= 1
    IN  IF ok
        THEN [ok |-> TRUE,
              value |-> IntVal(ip) * 10 + (IF fp = <<>> THEN 0 ELSE DigitVal(fp[1]))]
        ELSE [ok |-> FALSE, value |-> 0]

\* e.response.headers: the Retry-After header is absent or carries a string
NoHint == [present |-> FALSE, text |-> <<>>]
Hint(s) == [present |-> TRUE, text |-> s]
HintTwo == Hint(<<"2">>)
HintTenth == Hint(<<"0", ".", "1">>)
HintEmpty == Hint(<<>>)
\* an HTTP-date ("Wed, 21 Oct 2015 07:28:00 GMT"), cut to its first letters
HintDate == Hint(<<"W", "e", "d">>)
Hints == {NoHint, HintTwo, HintTenth, HintEmpty, HintDate}

\* --------------------------------------------------------------- failures
\* An exception: its class, for an HTTPStatusError the response's status and
\* Retry-After header, src = the attempt that raised it (0: raised by the
\* decorator itself), logged = an error-level event preceded the raise.
NoExc == [kind |-> "none", status |-> 0, hint |-> NoHint, src |-> 0, logged |-> FALSE]
Exc(k, st, h, n, l) == [kind |-> k, status |-> st, hint |-> h, src |-> n, logged |-> l]
ValueErrorExc == Exc("ValueError", 0, NoHint, 0, FALSE)

\* Variant: the backoff exponent counts attempts from 1 instead of 0.
WaitTime_ExponentFromOne(e, base_delay_, retries_) ==
    IF e.hint.present THEN ParseFloat(e.hint.text)
    ELSE [ok |-> TRUE, value |-> base_delay_ * (2 ^ (retries_ + 1))]

\* float(e.response.headers.get("Retry-After", base_delay * (2 ** retries)))
WaitTime(e, base_delay_, retries_) ==
    IF e.hint.present THEN ParseFloat(e.hint.text)
    ELSE [ok |-> TRUE, value |-> base_delay_ * (2 ^ retries_)]

\* Variant: every HTTPStatusError is retried, whatever its status.
HandleFailure_AnyStatus(e, retries_, max_retries_, base_delay_) ==
    IF e.kind = "HTTPStatusError" /\ retries_ < max_retries_
    THEN LET w == WaitTime(e, base_delay_, retries_) IN
         IF w.ok
         THEN [act |-> "sleep", exc |-> NoExc, warn |-> TRUE, wait |-> w.value]
         ELSE [act |-> "raise", exc |-> ValueErrorExc, warn |-> FALSE, wait |-> 0]
    ELSE [act |-> "raise", exc |-> e, warn |-> FALSE, wait |-> 0]

\* Variant: the retry test admits one retry more (retries <= max_retries).
HandleFailure_RetryOnceMore(e, retries_, max_retries_, base_delay_) ==
    IF e.kind = "HTTPStatusError" /\ e.status = 429 /\ retries_ <= max_retries_
    THEN LET w == WaitTime(e, base_delay_, retries_) IN
         IF w.ok
         THEN [act |-> "sleep", exc |-> NoExc, warn |-> TRUE, wait |-> w.value]
         ELSE [act |-> "raise", exc |-> ValueErrorExc, warn |-> FALSE, wait |-> 0]
    ELSE [act |-> "raise", exc |-> e, warn |-> FALSE, wait |-> 0]

\* Variant: the warning is logged for every 429, before the test of retries.
HandleFailure_WarnsEvery429(e, retries_, max_retries_, base_delay_) ==
    IF e.kind = "HTTPStatusError" /\ e.status = 429 /\ retries_ < max_retries_
    THEN LET w == WaitTime(e, base_delay_, retries_) IN
         IF w.ok
         THEN [act |-> "sleep", exc |-> NoExc, warn |-> TRUE, wait |-> w.value]
         ELSE [act |-> "raise", exc |-> ValueErrorExc, warn |-> FALSE, wait |-> 0]
    ELSE [act |-> "raise", exc |-> e,
          warn |-> (e.kind = "HTTPStatusError" /\ e.status = 429), wait |-> 0]

\* The except clause of the decorator's loop: what the wrapper does with an
\* exception e raised by the attempt made with `retries_` retries behind it.
HandleFailure(e, retries_, max_retries_, base_delay_) ==
    IF e.kind = "HTTPStatusError" /\ e.status = 429 /\ retries_ < max_retries_
    THEN LET w == WaitTime(e, base_delay_, retries_) IN
         IF w.ok
         THEN [act |-> "sleep", exc |-> NoExc, warn |-> TRUE, wait |-> w.value]
         ELSE [act |-> "raise", exc |-> ValueErrorExc, warn |-> FALSE, wait |-> 0]
    ELSE [act |-> "raise", exc |-> e, warn |-> FALSE, wait |-> 0]

\* ------------------------------------------------------------------ state
Frames == {"func", "outer", "site", "size"}

VARIABLES
    \* --- one call of a decorated function (SpecRetry)
    max_retries,   \* the decorator's max_retries
    base_delay,    \* the decorator's base_delay, in tenths of a second
    wpc,           \* "idle", "loop" (at the while test), "sleep", "returned", "raised"
    attempts,      \* the outcome of every call of func, in order
    warned,        \* logger.warning events: the wait each one announced
    slept,         \* asyncio.sleep calls that completed: their durations
    wraised,       \* the exception that left the wrapper
    wreturned,     \* the attempt whose value the wrapper returned (0: none)
    \* --- shared by the two specifications
    retries,       \* each wrapper frame's local `retries`
    wait_time,     \* the wrapper's local wait_time while it sleeps
    \* --- one call of a public client operation (Spec)
    op,            \* "download", "read_df" or "ls"
    pc,            \* where the call stands: "start", an await ("site", "meta",
                   \* "content", "list", "read", "sleep"), "write", "done", "failed"
    sleepFrame,    \* the wrapper frame that sleeps when pc = "sleep"
    siteReqs,      \* site-resolution requests issued by this call
    attemptSiteReqs, \* ... by the current attempt of the public operation
    metaReqs,      \* metadata requests issued by the current attempt
    response,      \* the last response and what was done with it
    clientOpen,    \* the httpx.AsyncClient scope is open
    respOpen,      \* the streamed response is open
    sinkOpen,      \* the fsspec file is open
    sinkOpens,     \* times the destination was opened ("wb") by this call
    site_id, total_size,
    received,      \* the chunks aiter_bytes has yielded, in order
    held,          \* the chunk read and not yet written
    sink,          \* the bytes in the destination file (or virtual_file)
    pbar,          \* the progress bar's counter
    file_path,     \* the file_path argument, a string
    parser,        \* the pandas reader read_df called ("none": none yet)
    failure,       \* the exception the call propagated to its caller
    tokenCalls,    \* calls of self.auth.get_token() made by the current attempt
    requests,      \* HTTP requests issued by the current attempt
    sentToken,     \* the token in the last request's Authorization header:
                   \* n is the token the n-th get_token call returned
    errorEvent,    \* the last error-level event logged by this call
    parserCalls,   \* calls of a pandas reader made by this call
    folder_path,   \* the folder_path argument of ls, a string
    endpoint,      \* the target of the last listing request
    listReqs,      \* listing requests issued by the current attempt
    steps          \* what the current attempt has done so far, in order

\* An authentication strategy object and its get_token calls
VARIABLES
    variant,       \* "DeviceCode" or "ClientSecret"
    scopes,        \* self.scopes
    apc,           \* position of the current get_token call
    ahistory,      \* how the earlier get_token calls on this object ended
    flow,          \* what initiate_device_flow returned
    result,        \* what the acquire_token_... call returned
    atrace,        \* what the current call did that can be observed, in order
    aoutcome       \* how the current call ended

\* One call of a pure function of the library
VARIABLES
    ppc,           \* "ready" before the call, "done" after it
    pin,           \* the argument
    pout           \* the value returned

\* Two invocations running concurrently on one client
VARIABLES
    cpc,           \* position of each invocation
    locals,        \* the storage cells holding the invocations' variables
    solo           \* each invocation as it runs alone on the same responses

\* A destination object and the mappings its get_storage_options returned
VARIABLES
    destination,   \* the fields of the destination object
    heap,          \* the dict objects created so far, each as its set of items
    returned,      \* the dict object each call returned, in call order
    snaps,         \* the items of each returned dict at the moment of return
    opened         \* the keyword arguments of each fsspec.open of a download

wrapperVars == <<max_retries, base_delay, wpc, attempts, warned, slept, wraised, wreturned>>
clientVars == <<op, pc, sleepFrame, siteReqs, attemptSiteReqs, metaReqs, response,
                clientOpen, respOpen, sinkOpen, sinkOpens, site_id, total_size,
                received, held, sink, pbar, file_path, parser, failure,
                tokenCalls, requests, sentToken, errorEvent, parserCalls,
                folder_path, endpoint, listReqs, steps>>
authVars == <<variant, scopes, apc, ahistory, flow, result, atrace, aoutcome>>
pureVars == <<ppc, pin, pout>>
concVars == <<cpc, locals, solo>>
destVars == <<destination, heap, returned, snaps, opened>>
sideVars == <<authVars, pureVars, concVars, destVars>>
vars == <<wrapperVars, clientVars, retries, wait_time, sideVars>>

\* The last response: the request it answers, its status, whether an
\* error-level event was logged for it, whether HTTPStatusError was raised
\* for it, whether its body was read, and the body's size field (-1: none).
NoResponse == [req |-> "none", status |-> 0, logged |-> FALSE, raised |-> FALSE,
               used |-> FALSE, size |-> -1]

NoRetries == [f \in Frames |-> 0]

\* Error-level events (logger.error): NoEvent is "none logged yet".
NoEvent == [kind |-> "none", status |-> 0]

\* No listing request was issued yet.
NoEndpoint == [kind |-> "none", path |-> <<>>]

\* ------------------------------------------- SpecRetry: the decorated call
BaseDelays == {5, DefaultBaseDelay}

\* What one call of func can do: return, raise HTTPStatusError for a
\* response (a 429 with any Retry-After header, or another status), or
\* raise another exception.
Outcomes ==
    {Exc("ok", 200, NoHint, 0, FALSE)}
    \cup {Exc("HTTPStatusError", 429, h, 0, FALSE) : h \in Hints}
    \cup {Exc("HTTPStatusError", st, NoHint, 0, FALSE) : st \in {404, 503}}
    \cup {Exc("HTTPStatusError", 503, HintTwo, 0, FALSE)}
    \cup {Exc("ConnectError", 0, NoHint, 0, FALSE)}

\* A dict of the identity provider that was not received yet.
NoDict == [absent |-> "absent"]

\* A get_token call that has not ended.
NoOutcome == [kind |-> "none", exc |-> "", value |-> ""]

AuthIdle ==
    /\ variant = "none" /\ scopes = <<>> /\ apc = "idle" /\ ahistory = <<>>
    /\ flow = NoDict /\ result = NoDict /\ atrace = <<>> /\ aoutcome = NoOutcome

PureIdle == ppc = "idle" /\ pin = "none" /\ pout = "none"

ConcIdle == cpc = "idle" /\ locals = "none" /\ solo = "none"

DestIdle ==
    /\ destination = "none" /\ heap = <<>> /\ returned = <<>>
    /\ snaps = <<>> /\ opened = <<>>

SideIdle == AuthIdle /\ PureIdle /\ ConcIdle /\ DestIdle

ClientIdle ==
    /\ op = "none" /\ pc = "idle" /\ sleepFrame = "none"
    /\ siteReqs = 0 /\ attemptSiteReqs = 0 /\ metaReqs = 0
    /\ response = NoResponse
    /\ clientOpen = FALSE /\ respOpen = FALSE /\ sinkOpen = FALSE /\ sinkOpens = 0
    /\ site_id = "none" /\ total_size = 0 /\ received = <<>> /\ held = <<>>
    /\ sink = <<>> /\ pbar = 0
    /\ file_path = <<>> /\ parser = "none"
    /\ failure = NoExc
    /\ tokenCalls = 0 /\ requests = 0 /\ sentToken = 0
    /\ errorEvent = NoEvent /\ parserCalls = 0
    /\ folder_path = <<>> /\ endpoint = NoEndpoint /\ listReqs = 0
    /\ steps = <<>>

WrapperIdle ==
    /\ max_retries = 0 /\ base_delay = DefaultBaseDelay /\ wpc = "idle"
    /\ attempts = <<>> /\ warned = <<>> /\ slept = <<>>
    /\ wraised = NoExc /\ wreturned = 0

\* wrapper(*args, **kwargs) is entered: retries = 0
InitRetry ==
    /\ max_retries \in 0..MaxRetriesBound
    /\ base_delay \in BaseDelays
    /\ wpc = "loop"
    /\ attempts = <<>> /\ warned = <<>> /\ slept = <<>>
    /\ wraised = NoExc /\ wreturned = 0
    /\ retries = NoRetries /\ wait_time = 0
    /\ ClientIdle /\ SideIdle

\* One pass of the loop up to its next await or exit: the while test, the
\* call of func, and the except clause.  When the while test fails the call
\* after the loop is made instead, outside any try.
WrapperAttempt ==
    /\ wpc = "loop"
    /\ \E o \in Outcomes :
        LET n      == Len(attempts) + 1
            e      == [o EXCEPT !.src = n]
            inLoop == retries["func"] <= max_retries
            d      == HandleFailure(e, retries["func"], max_retries, base_delay)
        IN  /\ attempts' = Append(attempts, e)
            /\ IF o.kind = "ok"
               THEN /\ wpc' = "returned" /\ wreturned' = n
                    /\ UNCHANGED <<warned, wraised, wait_time>>
               ELSE IF ~inLoop
               THEN /\ wpc' = "raised" /\ wraised' = e
                    /\ UNCHANGED <<warned, wreturned, wait_time>>
               ELSE /\ warned' = (IF d.warn THEN Append(warned, d.wait) ELSE warned)
                    /\ IF d.act = "sleep"
                       THEN /\ wpc' = "sleep" /\ wait_time' = d.wait
                            /\ UNCHANGED <<wraised, wreturned>>
                       ELSE /\ wpc' = "raised" /\ wraised' = d.exc
                            /\ UNCHANGED <<wreturned, wait_time>>
    /\ UNCHANGED <<max_retries, base_delay, slept, retries, clientVars, sideVars>>

\* Variant: the retry is not counted.
RetriesAfterSleep_NotCounted(n) == n

\* retries += 1 after the sleep, n being the value before
RetriesAfterSleep(n) == n + 1

\* await asyncio.sleep(wait_time) completes; retries += 1; continue
WrapperSleepDone ==
    /\ wpc = "sleep"
    /\ slept' = Append(slept, wait_time)
    /\ retries' = [retries EXCEPT !["func"] = RetriesAfterSleep(@)]
    /\ wpc' = "loop"
    /\ UNCHANGED <<max_retries, base_delay, attempts, warned, wraised, wreturned,
                   wait_time, clientVars, sideVars>>

NextRetry == WrapperAttempt \/ WrapperSleepDone

SpecRetry == InitRetry /\ [][NextRetry]_vars

\* ------------------------------------------ properties of the decorated call
Is429(e) == e.kind = "HTTPStatusError" /\ e.status = 429
IsFailure(e) == e.kind # "ok"
calls == Len(attempts)
WrapperDone == wpc \in {"returned", "raised"}

\* C1: with max_retries = n, an operation that fails with 429 on its first
\* n attempts and succeeds on attempt n+1 makes the wrapper return that
\* success after exactly n+1 calls; one whose first n+1 attempts all fail
\* with 429 makes it propagate the rate-limit failure after exactly n+1
\* calls; n = 0 means one call and no sleep.  Stated on the finished call: a
\* call that ended while every attempt so far was a 429 made n+1 attempts
\* and raised the last 429; a call whose attempts before the last were all
\* 429 and whose last succeeded returned that success.
C1_RetriesUntilSuccessOrExhaustion ==
    WrapperDone =>
        /\ (\A i \in 1..calls : Is429(attempts[i]))
              => /\ calls = max_retries + 1
                 /\ wpc = "raised" /\ Is429(wraised)
        /\ ((\A i \in 1..(calls - 1) : Is429(attempts[i])) /\ attempts[calls].kind = "ok")
              => /\ wpc = "returned" /\ wreturned = calls
                 /\ calls <= max_retries + 1
        /\ (max_retries = 0) => (calls = 1 /\ slept = <<>>)

\* C2: an attempt that fails with anything but a 429 (another HTTP status,
\* or an exception that is no HTTPStatusError) is the wrapper's last: no
\* sleep and no warning follow it and the wrapper raises that failure; when
\* it is the first attempt the operation was called exactly once.
C2_NonRateLimitFailsAtOnce ==
    \A i \in 1..calls :
        (IsFailure(attempts[i]) /\ ~Is429(attempts[i]))
            => /\ i = calls
               /\ wpc = "raised" /\ wraised = attempts[i]
               /\ Len(slept) = i - 1 /\ Len(warned) = i - 1

C2_Witness ==
    /\ wpc = "raised" /\ max_retries >= 2 /\ calls = 1
    /\ attempts[1].kind = "HTTPStatusError" /\ attempts[1].status = 503
    /\ attempts[1].hint = HintTwo

C2_WitnessLate ==
    /\ wpc = "raised" /\ calls = 3 /\ attempts[3].kind = "ConnectError"

\* C4: every failure that leaves the wrapper is the failure one of the
\* operation's own attempts raised (the last one), unchanged, whatever the
\* status and whatever the Retry-After header of a 429.
C4_FailureIsTheAttemptsOwn ==
    (wpc = "raised") => (wraised = attempts[calls])

\* The seconds a Retry-After header states, in tenths (-1: it states none).
HintSeconds(h) ==
    CASE h = HintTwo -> 20
      [] h = HintTenth -> 1
      [] OTHER -> -1

\* C5: the k-th sleep, which follows failed attempt k (k-1 retries made
\* before it), lasts the seconds of that attempt's Retry-After header when
\* it carries one and base_delay * 2^(k-1) otherwise; exactly one sleep
\* lies between two consecutive attempts.
C5_WaitIsHintOrBackoff ==
    /\ \A k \in 1..Len(slept) :
          slept[k] = (IF attempts[k].hint.present
                      THEN HintSeconds(attempts[k].hint)
                      ELSE base_delay * (2 ^ (k - 1)))
    /\ (wpc = "sleep") =>
          wait_time = (IF attempts[calls].hint.present
                       THEN HintSeconds(attempts[calls].hint)
                       ELSE base_delay * (2 ^ (calls - 1)))
    /\ Len(slept) = (IF wpc = "loop" THEN calls ELSE calls - 1)

C5_Witness ==
    /\ Len(slept) = 3
    /\ attempts[1].hint = HintTenth /\ slept[1] = 1
    /\ attempts[2].hint = NoHint /\ slept[2] = 2 * base_delay
    /\ attempts[3].hint = NoHint /\ slept[3] = 4 * base_delay

\* C6: one warning per retry, logged before that retry's sleep and
\* announcing its duration; a call that made a attempts logged a-1
\* warnings, so the last attempt (a success, a failure that is no 429, or
\* the 429 that exhausts the retries) logs none.
C6_OneWarningPerRetry ==
    /\ Len(warned) = Len(slept) + (IF wpc = "sleep" THEN 1 ELSE 0)
    /\ \A k \in 1..Len(slept) : warned[k] = slept[k]
    /\ Len(warned) = retries["func"] + (IF wpc = "sleep" THEN 1 ELSE 0)
    /\ WrapperDone => Len(warned) = calls - 1

C6_Witness ==
    /\ wpc = "raised" /\ Is429(wraised)
    /\ max_retries = 2 /\ calls = 3 /\ Len(warned) = 2

\* ------------------------------------------- Spec: a public client call
PublicOps == {"download", "read_df", "ls"}

\* the statuses a response may carry: 200, another 2xx, a client error, 429
Statuses == {200, 202, 404, 429}

\* the Retry-After headers a 429 response may carry
ClientHints == {NoHint, HintTwo, HintDate}

HintsOf(st) == IF st = 429 THEN ClientHints ELSE {NoHint}

\* max_retries of each decorated function
MaxRetriesOf(f) ==
    CASE f = "site" -> SiteMaxRetries
      [] f = "size" -> SizeMaxRetries
      [] f = "outer" /\ op = "download" -> DownloadMaxRetries
      [] f = "outer" /\ op = "read_df" -> ReadDfMaxRetries
      [] OTHER -> LsMaxRetries

\* httpx.Response.raise_for_status(): raises HTTPStatusError unless the
\* status is a success (2xx)
RaiseForStatus(st) == ~(200 <= st /\ st <= 299)

\* file_path values: "a.Csv", "a.xlsx", "a.XLS", "a.txt"
FilePaths == {<<"a", ".", "C", "s", "v">>, <<"a", ".", "x", "l", "s", "x">>,
              <<"a", ".", "X", "L", "S">>, <<"a", ".", "t", "x", "t">>,
              <<"c", "s", "v">>}

\* The folder_path arguments of ls: the default "/", "", "/a/", "//" and
\* "a b/c".
FolderPaths == {<<"/">>, <<>>, <<"/", "a", "/">>, <<"/", "/">>,
                <<"a", " ", "b", "/", "c">>}

RECURSIVE LStrip(_, _)
LStrip(str, ch) ==
    IF str # <<>> /\ Head(str) = ch THEN LStrip(Tail(str), ch) ELSE str

RECURSIVE RStrip(_, _)
RStrip(str, ch) ==
    IF str # <<>> /\ str[Len(str)] = ch
    THEN RStrip(SubSeq(str, 1, Len(str) - 1), ch)
    ELSE str

\* Variant: only the leading characters are removed (str.lstrip).
Strip_LeadingOnly(str, ch) == LStrip(str, ch)

\* str.strip(ch)
Strip(str, ch) == RStrip(LStrip(str, ch), ch)

\* urllib.parse.quote(str, safe='/') on the alphabet of FolderPaths: a
\* space is percent-encoded, letters and "/" are kept.
RECURSIVE Quote(_)
Quote(str) ==
    IF str = <<>> THEN <<>>
    ELSE (IF Head(str) = " " THEN <<"%", "2", "0">> ELSE <<Head(str)>>)
         \o Quote(Tail(str))

\* The endpoint ls builds: the children of the named folder when the
\* stripped path is non-empty, the children of the root otherwise.
ListEndpoint(path) ==
    LET clean_folder_path == Strip(path, "/") IN
    IF clean_folder_path # <<>>
    THEN [kind |-> "path", path |-> Quote(clean_folder_path)]
    ELSE [kind |-> "root", path |-> <<>>]

UpperCase == <<"C", "L", "S", "V", "X">>
LowerCase == <<"c", "l", "s", "v", "x">>

\* Variant: the suffix is compared as written.
Lower_Identity(str) == str

\* str.lower()
Lower(str) ==
    [i \in 1..Len(str) |->
        IF \E j \in 1..Len(UpperCase) : UpperCase[j] = str[i]
        THEN LowerCase[CHOOSE j \in 1..Len(UpperCase) : UpperCase[j] = str[i]]
        ELSE str[i]]

\* str.endswith(suffix)
EndsWith(str, suffix) ==
    /\ Len(suffix) <= Len(str)
    /\ SubSeq(str, Len(str) - Len(suffix) + 1, Len(str)) = suffix

RECURSIVE Flatten(_)
Flatten(chunks) ==
    IF chunks = <<>> THEN <<>> ELSE Head(chunks) \o Flatten(Tail(chunks))

\* The next chunk of the body, k bytes long: a byte is named by its offset
\* in the body, so that order and loss are visible.
NextChunk(k) ==
    LET off == Len(Flatten(received)) IN [i \in 1..k |-> off + i]

Init ==
    /\ WrapperIdle /\ SideIdle
    /\ retries = NoRetries /\ wait_time = 0
    /\ op \in PublicOps
    /\ file_path \in (IF op = "read_df" THEN FilePaths ELSE {<<"a", ".", "t", "x", "t">>})
    /\ pc = "start" /\ sleepFrame = "none"
    /\ siteReqs = 0 /\ attemptSiteReqs = 0 /\ metaReqs = 0
    /\ response = NoResponse
    /\ clientOpen = FALSE /\ respOpen = FALSE /\ sinkOpen = FALSE /\ sinkOpens = 0
    /\ site_id = "none" /\ total_size = 0 /\ received = <<>> /\ held = <<>>
    /\ sink = <<>> /\ pbar = 0 /\ parser = "none"
    /\ failure = NoExc
    /\ tokenCalls = 0 /\ requests = 0 /\ sentToken = 0
    /\ errorEvent = NoEvent /\ parserCalls = 0
    /\ folder_path \in (IF op = "ls" THEN FolderPaths ELSE {<<"/">>})
    /\ endpoint = NoEndpoint /\ listReqs = 0
    /\ steps = <<>>

\* the while test of frame f's wrapper
InLoop(f) == retries[f] <= MaxRetriesOf(f)

\* Variant: an exception leaves the chunk loop without closing the file.
ExitScopes_LeaksSinkOnError(byException) ==
    [client |-> FALSE, resp |-> FALSE, sink |-> (byException /\ sinkOpen)]

\* Leaving the body of the public operation, normally or by an exception:
\* the with-blocks release the file, the streamed response and the client.
ExitScopes(byException) ==
    [client |-> FALSE, resp |-> FALSE, sink |-> FALSE]

\* An exception e leaves the body of the public operation and reaches the
\* operation's own wrapper.
OuterCatch(e) ==
    LET d == HandleFailure(e, retries["outer"], MaxRetriesOf("outer"), DefaultBaseDelay)
    IN  IF InLoop("outer") /\ d.act = "sleep"
        THEN [pc |-> "sleep", frame |-> "outer", wait |-> d.wait, failure |-> NoExc,
              left |-> TRUE]
        ELSE [pc |-> "failed", frame |-> "none", wait |-> 0,
              failure |-> (IF InLoop("outer") THEN d.exc ELSE e), left |-> TRUE]

\* An exception e is raised inside the decorated helper f (_get_site_id,
\* _get_file_size): f's wrapper sleeps, or lets it reach the operation.
InnerCatch(f, e) ==
    LET d == HandleFailure(e, retries[f], MaxRetriesOf(f), DefaultBaseDelay)
    IN  IF InLoop(f) /\ d.act = "sleep"
        THEN [pc |-> "sleep", frame |-> f, wait |-> d.wait, failure |-> NoExc,
              left |-> FALSE]
        ELSE OuterCatch(IF InLoop(f) THEN d.exc ELSE e)

\* Control passes as c says; when the body of the operation is left its
\* scopes are exited and the helpers' frames are gone.
Goto(c) ==
    /\ pc' = c.pc /\ sleepFrame' = c.frame /\ wait_time' = c.wait
    /\ failure' = c.failure
    /\ IF c.left
       THEN LET x == ExitScopes(TRUE) IN
            /\ clientOpen' = x.client /\ respOpen' = x.resp /\ sinkOpen' = x.sink
            /\ retries' = [retries EXCEPT !["site"] = 0, !["size"] = 0]
       ELSE UNCHANGED <<clientOpen, respOpen, sinkOpen, retries>>

\* Control stays in the body and moves to `next`; helper f has returned.
Proceed(next, f) ==
    /\ pc' = next
    /\ retries' = [retries EXCEPT ![f] = 0]
    /\ UNCHANGED <<sleepFrame, wait_time, failure, clientOpen, respOpen, sinkOpen>>

AuthError == Exc("AuthenticationError", 0, NoHint, 0, TRUE)
TransportError == Exc("ConnectError", 0, NoHint, 0, FALSE)

\* The unsupported-format failure of read_df, logged before it is raised.
FormatError == Exc("ValueError", 0, NoHint, 0, TRUE)

\* logger.error before raise ValueError(erro_msg)
FormatEvent == [kind |-> "format", status |-> 0]

\* logger.error in get_token before raise AuthenticationError(error_msg)
AuthEvent == [kind |-> "auth", status |-> 0]

\* Variant: a non-200 status is raised without an error-level event.
LogStatus_Silent(st, last) == last

\* if response.status_code != 200: logger.error(...) naming the status;
\* last is the event logged before.
LogStatus(st, last) ==
    IF st # 200 THEN [kind |-> "status", status |-> st] ELSE last

\* Variant: the client keeps the first token and sends it again.
GetHeaders_Cached(n) ==
    IF n = 0 THEN [calls |-> 1, token |-> 1]
    ELSE [calls |-> n, token |-> 1]

\* _get_headers after n calls of self.auth.get_token(): one more call,
\* whose token goes into the Authorization header.
GetHeaders(n) == [calls |-> n + 1, token |-> n + 1]

tokenVars == <<tokenCalls, requests, sentToken>>

\* _get_headers where get_token raises: the call is made, no header is
\* built and no request is sent.
TokenRaises ==
    /\ tokenCalls' = tokenCalls + 1
    /\ errorEvent' = AuthEvent
    /\ UNCHANGED <<requests, sentToken>>

\* headers=self._get_headers() and the request that carries them
Send ==
    LET h == GetHeaders(tokenCalls) IN
    /\ tokenCalls' = h.calls
    /\ requests' = requests + 1
    /\ sentToken' = h.token

\* async for: the next chunk is requested at the head of the loop only,
\* that is when the body of the previous iteration has completed.
ChunkRequestable_Prefetch == pc \in {"read", "write"}

ChunkRequestable == pc = "read"

dataVars == <<total_size, sinkOpens, parser, parserCalls>>

\* An exception leaves the chunk loop: the with-block closes the file if
\* it is open.
ClosingSteps == IF sinkOpen THEN <<"close">> ELSE <<>>

\* Variant: the summary is logged inside the with-block of the file.
CompletionSteps_SummaryInsideSink(o) ==
    CASE o = "download" -> <<"summary", "close">>
      [] o = "read_df" -> <<"summary">>
      [] OTHER -> <<>>

\* How the body of operation o ends normally: download leaves the
\* with-blocks (the file is closed) and then logs the summary; read_df
\* logs it after the reader returned, inside the client's scope; ls logs
\* no summary.
CompletionSteps(o) ==
    CASE o = "download" -> <<"close", "summary">>
      [] o = "read_df" -> <<"summary">>
      [] OTHER -> <<>>

\* The operation's wrapper calls the operation: its locals are fresh, the
\* AsyncClient scope is entered.
Start ==
    /\ pc = "start"
    /\ pc' = "site"
    /\ clientOpen' = TRUE
    /\ site_id' = "none" /\ total_size' = 0
    /\ attemptSiteReqs' = 0 /\ metaReqs' = 0
    /\ received' = <<>> /\ held' = <<>> /\ pbar' = 0
    /\ listReqs' = 0 /\ steps' = <<>>
    /\ tokenCalls' = 0 /\ requests' = 0 /\ sentToken' = 0
    /\ UNCHANGED <<wrapperVars, sideVars, op, file_path, folder_path, endpoint, sleepFrame,
                   siteReqs, response, respOpen, sinkOpen, sinkOpens, sink, parser,
                   parserCalls, failure, retries, wait_time, errorEvent>>

\* _get_site_id, one attempt: _get_headers, the GET, the status test.
SiteRequest ==
    /\ pc = "site"
    /\ UNCHANGED <<wrapperVars, sideVars, op, file_path, folder_path, endpoint, listReqs, metaReqs, dataVars, received, held,
                   sink, pbar>>
    /\ \/ \* get_token raises: no request is sent
          /\ Goto(InnerCatch("site", AuthError))
          /\ TokenRaises
          /\ response' = NoResponse
          /\ UNCHANGED <<siteReqs, attemptSiteReqs, site_id, steps>>
       \/ \* the transport fails
          /\ Goto(InnerCatch("site", TransportError))
          /\ Send /\ UNCHANGED errorEvent
          /\ response' = NoResponse
          /\ siteReqs' = siteReqs + 1 /\ attemptSiteReqs' = attemptSiteReqs + 1
          /\ UNCHANGED site_id
          /\ steps' = Append(steps, "site")
       \/ \E st \in Statuses : \E h \in HintsOf(st) : \E hasId \in BOOLEAN :
            LET raises == st # 200 /\ RaiseForStatus(st)
                e == IF raises THEN Exc("HTTPStatusError", st, h, 0, TRUE)
                     ELSE Exc("KeyError", 0, NoHint, 0, FALSE)
            IN  /\ Send /\ errorEvent' = LogStatus(st, errorEvent)
                /\ siteReqs' = siteReqs + 1 /\ attemptSiteReqs' = attemptSiteReqs + 1
                /\ response' = [req |-> "site", status |-> st, logged |-> (st # 200),
                                raised |-> raises, used |-> ~raises, size |-> -1]
                /\ IF ~raises /\ hasId
                   THEN /\ site_id' = "id"
                        /\ steps' = steps \o <<"site", "resolved">>
                        /\ Proceed(IF op = "ls" THEN "list" ELSE "meta", "site")
                   ELSE /\ Goto(InnerCatch("site", e))
                        /\ steps' = Append(steps, "site")
                        /\ UNCHANGED site_id

\* Variant: the metadata lookup calls raise_for_status like the others.
GetFileSize_RaisesForStatus(st, size) ==
    IF st = 200 THEN [exc |-> NoExc, value |-> (IF size = -1 THEN 0 ELSE size)]
    ELSE IF RaiseForStatus(st)
    THEN [exc |-> Exc("HTTPStatusError", st, NoHint, 0, FALSE), value |-> 0]
    ELSE [exc |-> NoExc, value |-> 0]

\* _get_file_size after the GET: response.json().get("size", 0) for a 200,
\* 0 for any other status (size = -1: the body has no size field).
GetFileSize(st, size) ==
    IF st = 200 THEN [exc |-> NoExc, value |-> (IF size = -1 THEN 0 ELSE size)]
    ELSE [exc |-> NoExc, value |-> 0]

\* _get_file_size, one attempt
MetaRequest ==
    /\ pc = "meta"
    /\ UNCHANGED <<wrapperVars, sideVars, op, file_path, folder_path, endpoint, listReqs, siteReqs, attemptSiteReqs, site_id,
                   received, held, sink, pbar, sinkOpens, parser, parserCalls>>
    /\ \/ /\ Goto(InnerCatch("size", AuthError))
          /\ TokenRaises
          /\ response' = NoResponse
          /\ UNCHANGED <<metaReqs, total_size, steps>>
       \/ /\ Goto(InnerCatch("size", TransportError))
          /\ Send /\ UNCHANGED errorEvent
          /\ response' = NoResponse
          /\ metaReqs' = metaReqs + 1
          /\ steps' = Append(steps, "meta")
          /\ UNCHANGED total_size
       \/ \E st \in Statuses : \E size \in -1..MaxSize :
            LET r == GetFileSize(st, size) IN
            /\ Send /\ UNCHANGED errorEvent
            /\ metaReqs' = metaReqs + 1
            /\ steps' = Append(steps, "meta")
            /\ response' = [req |-> "meta", status |-> st, logged |-> FALSE,
                            raised |-> (r.exc # NoExc), used |-> (st = 200),
                            size |-> size]
            /\ IF r.exc = NoExc
               THEN /\ total_size' = r.value
                    /\ Proceed("content", "size")
               ELSE /\ Goto(InnerCatch("size", r.exc))
                    /\ UNCHANGED total_size

\* download / read_df: the streamed GET of the content, the status test,
\* and the entry of the progress bar's and the file's scopes.
ContentRequest ==
    /\ pc = "content"
    /\ UNCHANGED <<wrapperVars, sideVars, op, file_path, folder_path, endpoint, listReqs, siteReqs, attemptSiteReqs, metaReqs,
                   site_id, total_size, received, held, parser, parserCalls>>
    /\ \/ /\ Goto(OuterCatch(AuthError))
          /\ TokenRaises
          /\ response' = NoResponse
          /\ UNCHANGED <<sink, pbar, sinkOpens, steps>>
       \/ /\ Goto(OuterCatch(TransportError))
          /\ Send /\ UNCHANGED errorEvent
          /\ response' = NoResponse
          /\ steps' = Append(steps, "content")
          /\ UNCHANGED <<sink, pbar, sinkOpens>>
       \/ \E st \in Statuses : \E h \in HintsOf(st) :
            LET raises == st # 200 /\ RaiseForStatus(st) IN
            /\ Send /\ errorEvent' = LogStatus(st, errorEvent)
            /\ response' = [req |-> "content", status |-> st, logged |-> (st # 200),
                            raised |-> raises, used |-> FALSE, size |-> -1]
            /\ IF raises
               THEN /\ Goto(OuterCatch(Exc("HTTPStatusError", st, h, 0, TRUE)))
                    /\ steps' = Append(steps, "content")
                    /\ UNCHANGED <<sink, pbar, sinkOpens>>
               ELSE \/ \* tqdm(...) and fsspec.open(dest_path, "wb") / BytesIO()
                       /\ pc' = "read" /\ respOpen' = TRUE
                       /\ sinkOpen' = (op = "download")
                       /\ sinkOpens' = (IF op = "download" THEN sinkOpens + 1 ELSE sinkOpens)
                       /\ sink' = <<>> /\ pbar' = 0
                       /\ steps' = steps \o <<"content", "accepted">>
                                         \o (IF op = "download" THEN <<"open">> ELSE <<>>)
                       /\ UNCHANGED <<sleepFrame, wait_time, failure, clientOpen, retries>>
                    \/ \* the destination cannot be opened
                       /\ op = "download"
                       /\ Goto(OuterCatch(Exc("OSError", 0, NoHint, 0, FALSE)))
                       /\ steps' = steps \o <<"content", "accepted">>
                       /\ UNCHANGED <<sink, pbar, sinkOpens>>

\* The body of the operation ends normally: its scopes are exited.
Finish ==
    LET x == ExitScopes(FALSE) IN
    /\ pc' = "done"
    /\ steps' = steps \o CompletionSteps(op)
    /\ clientOpen' = x.client /\ respOpen' = x.resp /\ sinkOpen' = x.sink
    /\ UNCHANGED <<sleepFrame, wait_time, failure, retries>>

\* Variant: a failed read of the body raises the rate-limit failure.
StreamFailure_RateLimited == Exc("HTTPStatusError", 429, NoHint, 0, FALSE)

\* What response.aiter_bytes() raises when the body cannot be read: a
\* transport error; HTTPStatusError comes from raise_for_status only.
StreamFailure == Exc("ReadError", 0, NoHint, 0, FALSE)

\* async for chunk in response.aiter_bytes(): the next chunk, the end of
\* the body, or a failed read.
ReadChunk ==
    /\ ChunkRequestable
    /\ UNCHANGED <<wrapperVars, sideVars, op, file_path, folder_path, endpoint, listReqs, siteReqs, attemptSiteReqs, metaReqs,
                   site_id, total_size, sink, pbar, sinkOpens, parser, parserCalls,
                   tokenVars, errorEvent>>
    /\ \/ /\ Len(received) < MaxChunks
          /\ \E k \in 1..MaxChunkLen :
                /\ held' = NextChunk(k)
                /\ received' = Append(received, NextChunk(k))
          /\ response' = [response EXCEPT !.used = TRUE]
          /\ pc' = "write"
          /\ steps' = Append(steps, "chunk")
          /\ UNCHANGED <<sleepFrame, wait_time, failure, clientOpen, respOpen, sinkOpen,
                         retries>>
       \/ /\ Goto(OuterCatch(StreamFailure))
          /\ steps' = steps \o ClosingSteps
          /\ UNCHANGED <<response, received, held>>
       \/ /\ op = "download"
          /\ Finish
          /\ UNCHANGED <<response, received, held>>
       \/ /\ op = "read_df"
          /\ pc' = "parse" /\ respOpen' = FALSE
          /\ UNCHANGED <<response, received, held, steps, sleepFrame, wait_time, failure,
                         clientOpen, sinkOpen, retries>>

\* Variant: the file is rewritten from its start by every chunk.
SinkWrite_Overwrites(bytes, chunk) == chunk

\* f.write(chunk) / virtual_file.write(chunk)
SinkWrite(bytes, chunk) == bytes \o chunk

\* Variant: the bar stops at its total.
PbarUpdate_StopsAtTotal(n, chunk, total) ==
    IF n + Len(chunk) > total THEN total ELSE n + Len(chunk)

\* pbar.update(len(chunk)) on a bar created with total = total_size
PbarUpdate(n, chunk, total) == n + Len(chunk)

\* The loop body: f.write(chunk); pbar.update(len(chunk))
WriteChunk ==
    /\ pc = "write"
    /\ UNCHANGED <<wrapperVars, sideVars, op, file_path, folder_path, endpoint, listReqs, siteReqs, attemptSiteReqs, metaReqs,
                   site_id, total_size, received, response, sinkOpens, parser,
                   parserCalls, tokenVars, errorEvent>>
    /\ \/ /\ sink' = SinkWrite(sink, held)
          /\ pbar' = PbarUpdate(pbar, held, total_size)
          /\ held' = <<>>
          /\ pc' = "read"
          /\ UNCHANGED <<steps, sleepFrame, wait_time, failure, clientOpen, respOpen, sinkOpen,
                         retries>>
       \/ /\ op = "download"
          /\ Goto(OuterCatch(Exc("OSError", 0, NoHint, 0, FALSE)))
          /\ held' = <<>>
          /\ steps' = steps \o ClosingSteps
          /\ UNCHANGED <<sink, pbar>>

\* read_df after the stream: the reader is chosen by the suffix of
\* file_path.lower().
Parse ==
    /\ pc = "parse"
    /\ UNCHANGED <<wrapperVars, sideVars, op, file_path, folder_path, endpoint, listReqs, siteReqs, attemptSiteReqs, metaReqs,
                   site_id, total_size, received, held, response, sink, pbar, sinkOpens,
                   tokenVars>>
    /\ LET file_lower == Lower(file_path)
           reader == IF EndsWith(file_lower, <<".", "c", "s", "v">>) THEN "read_csv"
                     ELSE IF \/ EndsWith(file_lower, <<".", "x", "l", "s", "x">>)
                             \/ EndsWith(file_lower, <<".", "x", "l", "s">>)
                     THEN "read_excel"
                     ELSE "none"
       IN  IF reader = "none"
           THEN /\ errorEvent' = FormatEvent
                /\ Goto(OuterCatch(FormatError))
                /\ UNCHANGED <<parser, parserCalls, steps>>
           ELSE /\ parser' = reader /\ parserCalls' = parserCalls + 1
                /\ UNCHANGED errorEvent
                /\ \/ Finish
                   \/ /\ Goto(OuterCatch(Exc("ParserError", 0, NoHint, 0, FALSE)))
                      /\ UNCHANGED steps

\* ls: the GET of the children and the status test
ListRequest ==
    /\ pc = "list"
    /\ UNCHANGED <<wrapperVars, sideVars, op, file_path, folder_path, siteReqs, attemptSiteReqs,
                   metaReqs, site_id, dataVars, received, held, sink, pbar>>
    /\ \/ /\ Goto(OuterCatch(AuthError))
          /\ TokenRaises
          /\ response' = NoResponse
          /\ UNCHANGED <<endpoint, listReqs, steps>>
       \/ /\ Goto(OuterCatch(TransportError))
          /\ Send /\ UNCHANGED errorEvent
          /\ endpoint' = ListEndpoint(folder_path) /\ listReqs' = listReqs + 1
          /\ steps' = Append(steps, "list")
          /\ response' = NoResponse
       \/ \E st \in Statuses : \E h \in HintsOf(st) :
            LET raises == st # 200 /\ RaiseForStatus(st) IN
            /\ Send /\ errorEvent' = LogStatus(st, errorEvent)
            /\ endpoint' = ListEndpoint(folder_path) /\ listReqs' = listReqs + 1
            /\ response' = [req |-> "list", status |-> st, logged |-> (st # 200),
                            raised |-> raises, used |-> ~raises, size |-> -1]
            /\ IF raises
               THEN /\ Goto(OuterCatch(Exc("HTTPStatusError", st, h, 0, TRUE)))
                    /\ steps' = Append(steps, "list")
               ELSE Finish

\* await asyncio.sleep(wait_time) completes in frame sleepFrame:
\* retries += 1; continue, which calls the frame's function again
SleepDone ==
    /\ pc = "sleep"
    /\ retries' = [retries EXCEPT ![sleepFrame] = RetriesAfterSleep(@)]
    /\ pc' = (CASE sleepFrame = "site" -> "site"
                [] sleepFrame = "size" -> "meta"
                [] OTHER -> "start")
    /\ sleepFrame' = "none" /\ wait_time' = 0
    /\ UNCHANGED <<wrapperVars, sideVars, op, file_path, folder_path, endpoint, listReqs, siteReqs, attemptSiteReqs, metaReqs,
                   response, clientOpen, respOpen, sinkOpen, site_id, dataVars,
                   received, held, sink, pbar, failure, tokenVars, errorEvent, steps>>

Awaits == {"site", "meta", "content", "list", "read", "sleep"}

\* The caller cancels the call while it is suspended at an await:
\* CancelledError is raised there and no wrapper catches it.
Cancel ==
    /\ pc \in Awaits
    /\ Goto(OuterCatch(Exc("CancelledError", 0, NoHint, 0, FALSE)))
    /\ steps' = steps \o ClosingSteps
    /\ UNCHANGED <<wrapperVars, sideVars, op, file_path, folder_path, endpoint, listReqs, siteReqs, attemptSiteReqs, metaReqs,
                   response, site_id, dataVars, received, held, sink, pbar,
                   tokenVars, errorEvent>>

Next ==
    \/ Start \/ SiteRequest \/ MetaRequest \/ ContentRequest \/ ReadChunk
    \/ WriteChunk \/ Parse \/ ListRequest \/ SleepDone \/ Cancel

Spec == Init /\ [][Next]_vars

\* ------------------------------------------- properties of a client call
Closed == ~sinkOpen /\ ~respOpen /\ ~clientOpen

\* site resolution has just used up its retries on a 429
SiteExhausted ==
    /\ response.req = "site" /\ response.status = 429
    /\ attemptSiteReqs = SiteMaxRetries + 1

\* C3: once site resolution has failed with 429 on max_retries + 1 = 4
\* attempts the public operation fails with that 429 and does not resolve
\* the site again: at most 4 site-resolution requests per public call.
C3_SiteResolutionAtMostFourPerCall ==
    /\ siteReqs <= SiteMaxRetries + 1
    /\ SiteExhausted => (pc = "failed" /\ failure.kind \in {"HTTPStatusError", "CancelledError"})

\* C3 as amended: at most 4 site-resolution requests per attempt of the
\* public operation; the 429 that exhausts them reaches the operation's own
\* wrapper, which runs the operation again while it has retries left, so a
\* call issues at most (max_retries of the operation + 1) * 4 of them.
C3_SiteResolutionBoundedPerAttempt ==
    /\ attemptSiteReqs <= SiteMaxRetries + 1
    /\ retries["site"] <= SiteMaxRetries
    /\ retries["outer"] <= MaxRetriesOf("outer")
    /\ siteReqs <= (retries["outer"] + 1) * (SiteMaxRetries + 1)
    /\ SiteExhausted => \/ pc = "sleep" /\ sleepFrame = "outer"
                        \/ pc = "start" /\ retries["outer"] >= 1
                        \/ pc = "failed"

C3_Witness ==
    /\ op = "download" /\ pc = "failed" /\ Is429(failure)
    /\ siteReqs = (DownloadMaxRetries + 1) * (SiteMaxRetries + 1)

RECURSIVE SumLen(_)
SumLen(chunks) == IF chunks = <<>> THEN 0 ELSE Len(Head(chunks)) + SumLen(Tail(chunks))

InChunkLoop == pc \in {"read", "write"}

C7_Counts ==
    (op = "download") =>
        /\ InChunkLoop =>
              /\ pbar = Len(sink)
              /\ sink \o held = Flatten(received)
        /\ (pc = "done") =>
              /\ sink = Flatten(received)
              /\ sink = [i \in 1..Len(sink) |-> i]
              /\ Len(sink) = SumLen(received)
              /\ pbar = SumLen(received)

\* C7: when download completes normally the sink holds exactly the
\* streamed chunks in stream order, as many bytes as the chunk lengths sum
\* to, and the progress counter equals that total, whatever total_size was;
\* in the chunk loop the counter equals the bytes written so far and never
\* decreases.
C7_DownloadWritesTheStream ==
    /\ [](C7_Counts)
    /\ [][(op = "download" /\ InChunkLoop /\ pc' \in {"read", "write", "done"})
             => pbar' >= pbar]_vars

C7_Witness ==
    /\ op = "download" /\ pc = "done"
    /\ Len(received) = 2 /\ Len(sink) = 3 /\ pbar = 3
    /\ total_size = 1

\* C8: once download has opened the sink, every exit (normal completion, an
\* exception while reading or writing, cancellation at an await) leaves the
\* sink closed and the response and the client released; the sink is open
\* only inside the chunk loop.
C8_EveryExitReleases ==
    /\ (pc \in {"done", "failed", "start"}) => Closed
    /\ (pc = "sleep" /\ sleepFrame = "outer") => Closed
    /\ sinkOpen => (op = "download" /\ InChunkLoop /\ respOpen /\ clientOpen)
    /\ respOpen => clientOpen

C8_Witness ==
    /\ op = "download" /\ pc = "failed" /\ failure.kind = "CancelledError"
    /\ sinkOpens = 1 /\ Len(sink) = 1 /\ Len(received) = 1

C8_WitnessWriteError ==
    /\ op = "download" /\ pc = "failed" /\ failure.kind = "OSError"
    /\ sinkOpens = 1 /\ Len(received) = 1

\* C9: for site resolution, content streaming and folder listing, a
\* response whose status is not 200 makes the operation fail with an
\* HTTPStatusError after an error-level event, and its body is never used:
\* no site id, no byte written, no records.
C9_Non200FailsBodyUnused ==
    (response.req \in {"site", "content", "list"} /\ response.status # 200) =>
        /\ response.logged /\ response.raised /\ ~response.used
        /\ pc \notin {"meta", "list", "read", "write", "parse", "done"}
        /\ (response.req = "site") => site_id = "none"
        /\ (response.req = "content") => sink = <<>>

\* C10: a response to the metadata lookup never fails the operation: for
\* every status but 200, 429 included, _get_file_size returns 0 after one
\* request, without retry or sleep, and the operation goes on to the
\* content request; for 200 it returns the body's size, 0 when it has none.
C10_MetadataNeverFails ==
    /\ sleepFrame # "size" /\ retries["size"] = 0 /\ metaReqs <= 1
    /\ (response.req = "meta") =>
          /\ ~response.raised /\ metaReqs = 1
          /\ total_size = (IF response.status = 200 /\ response.size # -1
                           THEN response.size ELSE 0)
          /\ \/ pc = "content"
             \/ pc = "failed" /\ failure.kind = "CancelledError"

C10_Witness ==
    /\ response.req = "meta" /\ response.status = 429
    /\ pc = "content" /\ total_size = 0 /\ metaReqs = 1

\* get_token raised in this call (it ends the call)
TokenFailures == IF pc = "failed" /\ failure = AuthError THEN 1 ELSE 0

\* C11, as stated: over any run, and so over each attempt of it, the
\* number of get_token calls equals the number of requests issued.
C11_TokenCallsEqualRequests == tokenCalls = requests

\* C11: every request, a retried one included, is sent in the same step
\* as its own get_token call and carries the token that call returned,
\* never an earlier one; in every attempt the get_token calls that
\* returned a token are as many as the requests issued, and a get_token
\* call that raises sends no request and ends the call.
C11_FreshTokenPerRequest ==
    /\ [][(requests' > requests) =>
            /\ requests' = requests + 1
            /\ tokenCalls' = tokenCalls + 1
            /\ sentToken' = tokenCalls']_vars
    /\ [][(tokenCalls' > tokenCalls /\ requests' = requests) =>
            (pc' = "failed" /\ failure' = AuthError)]_vars
    /\ [](tokenCalls = requests + TokenFailures /\ sentToken = requests)

C11_Witness ==
    /\ op = "download" /\ pc = "done" /\ retries["outer"] = 1
    /\ requests = 3 /\ tokenCalls = 3 /\ sentToken = 3

\* the event ev describes the failure e
Describes(ev, e) ==
    CASE e.kind = "HTTPStatusError" -> ev = [kind |-> "status", status |-> e.status]
      [] e.kind = "AuthenticationError" -> ev = AuthEvent
      [] e = FormatError -> ev = FormatEvent
      [] OTHER -> FALSE

C13_OneChunkInFlight ==
    /\ [](op = "download" /\ pc = "read" =>
            held = <<>> /\ Len(sink) = SumLen(received))
    /\ [](op = "download" /\ pc = "write" =>
            /\ received # <<>> /\ held = received[Len(received)]
            /\ Len(sink) + Len(held) = SumLen(received))
    /\ [][(op = "download" /\ received' # received) => held = <<>>]_vars

C13_Witness ==
    /\ op = "download" /\ pc = "write" /\ Len(received) = 2
    /\ Len(held) = 2 /\ Len(sink) = 1

\* the reader each file_path of FilePaths calls for
ExpectedReader(path) ==
    CASE path = <<"a", ".", "C", "s", "v">> -> "read_csv"
      [] path = <<"a", ".", "x", "l", "s", "x">> -> "read_excel"
      [] path = <<"a", ".", "X", "L", "S">> -> "read_excel"
      [] OTHER -> "none"

\* C14: read_df calls a reader only after the whole stream is buffered,
\* one reader and once, chosen by the suffix whatever its case: read_csv
\* for .csv, read_excel for .xlsx and .xls; for any other file_path it
\* calls none, logs an error-level event and fails with the unsupported
\* format error, which the wrapper does not retry.
C14_ReaderBySuffix ==
    (op = "read_df") =>
        /\ parserCalls <= 1
        /\ (parserCalls = 0) => parser = "none"
        /\ (parserCalls = 1) =>
              /\ parser # "none" /\ parser = ExpectedReader(file_path)
              /\ ~respOpen /\ sink = Flatten(received)
              /\ pc \in {"done", "failed"}
        /\ (pc = "done") => parserCalls = 1
        /\ (ExpectedReader(file_path) = "none") => parserCalls = 0 /\ pc # "done"
        /\ (errorEvent = FormatEvent) =>
              /\ pc = "failed" /\ failure = FormatError
              /\ ExpectedReader(file_path) = "none"
              /\ sink = Flatten(received)
        /\ (failure = FormatError) => errorEvent = FormatEvent

C14_Witness ==
    /\ op = "read_df" /\ pc = "done" /\ file_path = <<"a", ".", "X", "L", "S">>
    /\ parser = "read_excel" /\ parserCalls = 1 /\ Len(received) = 2

C14_WitnessUnsupported ==
    /\ op = "read_df" /\ pc = "failed" /\ file_path = <<"c", "s", "v">>
    /\ failure = FormatError /\ parserCalls = 0 /\ Len(received) = 1

\* the endpoint each folder_path of FolderPaths calls for
ExpectedEndpoint(path) ==
    CASE path = <<"/", "a", "/">> -> [kind |-> "path", path |-> <<"a">>]
      [] path = <<"a", " ", "b", "/", "c">> ->
            [kind |-> "path", path |-> <<"a", "%", "2", "0", "b", "/", "c">>]
      [] OTHER -> [kind |-> "root", path |-> <<>>]

\* C19: an attempt of ls issues, after the site is resolved, one listing
\* request and no more: to the children of the root when folder_path is
\* empty once its slashes are stripped (the default "/" included), to the
\* children of the stripped path otherwise, never to a path-scoped
\* endpoint with an empty path.
C19_OneListingRequest ==
    /\ listReqs <= 1
    /\ (op # "ls") => listReqs = 0
    /\ (listReqs = 1) =>
          /\ site_id = "id" /\ attemptSiteReqs >= 1
          /\ endpoint = ExpectedEndpoint(folder_path)
          /\ endpoint.kind \in {"root", "path"}
          /\ (endpoint.kind = "path") => endpoint.path # <<>>
    /\ (op = "ls" /\ pc = "done") => listReqs = 1

C19_Witness ==
    /\ op = "ls" /\ pc = "done" /\ folder_path = <<"/">>
    /\ endpoint.kind = "root" /\ listReqs = 1 /\ retries["outer"] = 1

C19_WitnessPath ==
    /\ op = "ls" /\ pc = "done" /\ folder_path = <<"/", "a", "/">>
    /\ endpoint = [kind |-> "path", path |-> <<"a">>]

\* --------------------------------- SpecAuth: get_token of a strategy
MaxTokenCalls == 3

\* key in d, and d.get(key, default), for a dict d
Has(d, k) == k \in DOMAIN d
Get(d, k, default) == IF Has(d, k) THEN d[k] ELSE default

AuthVariants == {"DeviceCode", "ClientSecret"}

\* The scopes argument of the constructors: None, [] or a list.
ScopeArgs == {[given |-> FALSE, value |-> <<>>], [given |-> TRUE, value |-> <<>>],
              [given |-> TRUE, value |-> <<"custom">>]}

DeviceDefaultScopes == <<"https://graph.microsoft.com/Sites.Read.All">>
SecretDefaultScopes == <<"https://graph.microsoft.com/.default">>

\* self.scopes = scopes or [default]: None and [] are both false
ScopesOf(v, arg) ==
    IF arg.given /\ arg.value # <<>> THEN arg.value
    ELSE IF v = "DeviceCode" THEN DeviceDefaultScopes ELSE SecretDefaultScopes

\* What initiate_device_flow can return: a flow with its user code and
\* instruction, or an error with or without a description.
Flows == {[user_code |-> "U", message |-> "M"],
          [error |-> "E", error_description |-> "flow refused"],
          [error |-> "E"]}

\* What the acquire_token_... calls can return.
Results == {[access_token |-> "T"],
            [error |-> "E", error_description |-> "denied"],
            [error |-> "E"]}

UnknownError == "Erro desconhecido / Unknown error"
DeviceFlowFailed == "Falha ao criar o fluxo de dispositivo. / Failed to create device flow."

\* What a call does that can be observed: the calls of the provider, the
\* lines printed and the events logged at error level.
Ev(e, m) == [ev |-> e, msg |-> m]

Returned(token) == [kind |-> "returned", exc |-> "", value |-> token]
Raised(k, m) == [kind |-> "raised", exc |-> k, value |-> m]

\* Variant: the instruction goes to the logger, which can be silenced.
AfterInitiate_LogsInstruction(flow_) ==
    IF ~Has(flow_, "user_code")
    THEN [outcome |-> Raised("AuthenticationError", DeviceFlowFailed),
          events |-> <<Ev("error", DeviceFlowFailed), Ev("error", DeviceFlowFailed)>>]
    ELSE [outcome |-> NoOutcome, events |-> <<Ev("info", flow_["message"])>>]

\* DeviceCodeAuth.get_token between its two provider calls: a flow without
\* user code is logged and raised, otherwise the instruction is printed.
AfterInitiate(flow_) ==
    IF ~Has(flow_, "user_code")
    THEN [outcome |-> Raised("AuthenticationError", DeviceFlowFailed),
          events |-> <<Ev("error", DeviceFlowFailed), Ev("error", DeviceFlowFailed)>>]
    ELSE [outcome |-> NoOutcome, events |-> <<Ev("print", flow_["message"])>>]

\* Variant: the result is taken for a success unless it has a description
\* of an error.
TokenOrError_TestsDescription(result_) ==
    IF ~Has(result_, "error_description")
    THEN [outcome |-> Returned(Get(result_, "access_token", "None")), events |-> <<>>]
    ELSE [outcome |-> Raised("AuthenticationError", result_["error_description"]),
          events |-> <<Ev("error", result_["error_description"]),
                       Ev("error", result_["error_description"])>>]

\* Both get_token methods after the acquire_token_... call
TokenOrError(result_) ==
    IF Has(result_, "access_token")
    THEN [outcome |-> Returned(result_["access_token"]), events |-> <<>>]
    ELSE LET error_msg == Get(result_, "error_description", UnknownError)
         IN  [outcome |-> Raised("AuthenticationError", error_msg),
              events |-> <<Ev("error", error_msg), Ev("error", error_msg)>>]

InitAuth ==
    /\ WrapperIdle /\ ClientIdle /\ PureIdle /\ ConcIdle /\ DestIdle
    /\ retries = NoRetries /\ wait_time = 0
    /\ variant \in AuthVariants
    /\ \E arg \in ScopeArgs : scopes = ScopesOf(variant, arg)
    /\ apc = "ready" /\ ahistory = <<>>
    /\ flow = NoDict /\ result = NoDict /\ atrace = <<>> /\ aoutcome = NoOutcome

authRest == <<wrapperVars, clientVars, retries, wait_time, pureVars, concVars, destVars>>

CallEnded == apc \in {"returned", "raised"}

\* get_token is called: ahistory takes the outcome of the call before
BeginCall ==
    /\ apc = "ready" \/ CallEnded
    /\ Len(ahistory) + (IF CallEnded THEN 1 ELSE 0) < MaxTokenCalls
    /\ ahistory' = (IF CallEnded THEN Append(ahistory, aoutcome.kind) ELSE ahistory)
    /\ flow' = NoDict /\ result' = NoDict /\ aoutcome' = NoOutcome

End(r) ==
    /\ atrace' = atrace \o r.events
    /\ aoutcome' = r.outcome
    /\ apc' = r.outcome.kind

\* DeviceCodeAuth.get_token up to initiate_device_flow(scopes=self.scopes)
DeviceInitiate ==
    /\ variant = "DeviceCode"
    /\ BeginCall
    /\ atrace' = <<Ev("initiate", scopes[1])>>
    /\ apc' = "initiating"
    /\ UNCHANGED <<authRest, variant, scopes>>

\* initiate_device_flow returns: the user_code test, the instruction, and
\* the call of acquire_token_by_device_flow(flow)
DeviceInitiated ==
    /\ apc = "initiating"
    /\ \E f \in Flows :
          LET a == AfterInitiate(f) IN
          /\ flow' = f
          /\ IF a.outcome = NoOutcome
             THEN /\ atrace' = atrace \o a.events \o <<Ev("acquire", "flow")>>
                  /\ apc' = "acquiring"
                  /\ UNCHANGED aoutcome
             ELSE End(a)
    /\ UNCHANGED <<authRest, variant, scopes, ahistory, result>>

\* ClientSecretAuth.get_token up to acquire_token_for_client(scopes=...)
SecretAcquire ==
    /\ variant = "ClientSecret"
    /\ BeginCall
    /\ atrace' = <<Ev("acquire", scopes[1])>>
    /\ apc' = "acquiring"
    /\ UNCHANGED <<authRest, variant, scopes>>

\* The acquire_token_... call returns a result, or the provider library
\* raises (the identity provider cannot be reached).
Acquired ==
    /\ apc = "acquiring"
    /\ \/ \E r \in Results : result' = r /\ End(TokenOrError(r))
       \/ /\ End([outcome |-> Raised("ConnectionError", "unreachable"), events |-> <<>>])
          /\ UNCHANGED result
    /\ UNCHANGED <<authRest, variant, scopes, ahistory, flow>>

NextAuth == DeviceInitiate \/ DeviceInitiated \/ SecretAcquire \/ Acquired

SpecAuth == InitAuth /\ [][NextAuth]_vars

\* ------------------------------------------- properties of get_token
\* the call failed at initiation: the flow has no user code
InitiationFailed == variant = "DeviceCode" /\ flow # NoDict /\ ~Has(flow, "user_code")

\* the provider's answer that made the call fail
FailingDict == IF InitiationFailed THEN flow ELSE result

\* the event logged at error level with message m is in the trace
ErrorLogged(m) == \E i \in 1..Len(atrace) : atrace[i] = Ev("error", m)

\* the provider answered the call (the library did not raise)
Answered == CallEnded /\ aoutcome.exc # "ConnectionError"

\* C16, as stated: get_token returns the token exactly when the
\* provider's result has an access token, and otherwise, a device flow
\* without user code included, fails with AuthenticationError carrying the
\* provider's error description, or a generic message when none is given.
C16_CarriesProviderDescription ==
    Answered =>
        /\ (aoutcome.kind = "returned") <=> Has(result, "access_token")
        /\ (aoutcome.kind = "raised") =>
              /\ aoutcome.exc = "AuthenticationError"
              /\ IF Has(FailingDict, "error_description")
                 THEN aoutcome.value = FailingDict["error_description"]
                 ELSE aoutcome.value \in {UnknownError, DeviceFlowFailed}

\* C16: get_token returns the result's access token exactly when the
\* result has one; otherwise it fails with AuthenticationError after an
\* error-level event with the same message: the fixed device-flow message
\* when the flow has no user code, whatever the provider described, and
\* the result's error description, or the unknown-error message when it
\* has none, when the acquisition was refused.
C16_TokenOrAuthenticationError ==
    Answered =>
        /\ (aoutcome.kind = "returned") <=> Has(result, "access_token")
        /\ (aoutcome.kind = "returned") => aoutcome.value = result["access_token"]
        /\ (aoutcome.kind = "raised") =>
              /\ aoutcome.exc = "AuthenticationError"
              /\ ErrorLogged(aoutcome.value)
              /\ aoutcome.value =
                    (IF InitiationFailed THEN DeviceFlowFailed
                     ELSE Get(result, "error_description", UnknownError))
        /\ InitiationFailed => aoutcome.kind = "raised" /\ result = NoDict

C16_Witness ==
    /\ variant = "ClientSecret" /\ apc = "raised" /\ result = [error |-> "E"]
    /\ aoutcome = Raised("AuthenticationError", UnknownError)
    /\ ahistory = <<"returned">>

C16_WitnessInitiation ==
    /\ variant = "DeviceCode" /\ apc = "raised"
    /\ flow = [error |-> "E", error_description |-> "flow refused"]
    /\ aoutcome = Raised("AuthenticationError", DeviceFlowFailed)

Count(tr, e) == Cardinality({i \in 1..Len(tr) : tr[i].ev = e})

\* C17: a DeviceCodeAuth.get_token call whose flow has a user code prints
\* the instruction once, after initiate_device_flow returned and before
\* acquire_token_by_device_flow is called; a call whose initiation failed
\* prints nothing, and ClientSecretAuth.get_token never prints.
C17_InstructionOncePerCall ==
    /\ (variant = "ClientSecret") => Count(atrace, "print") = 0
    /\ (variant = "DeviceCode" /\ apc = "initiating") => Count(atrace, "print") = 0
    /\ (variant = "DeviceCode" /\ apc \in {"acquiring", "returned", "raised"}) =>
          IF Has(flow, "user_code")
          THEN /\ Count(atrace, "print") = 1
               /\ Len(atrace) >= 3
               /\ atrace[1].ev = "initiate"
               /\ atrace[2] = Ev("print", flow["message"])
               /\ atrace[3].ev = "acquire"
          ELSE Count(atrace, "print") = 0 /\ Count(atrace, "acquire") = 0

C17_Witness ==
    /\ variant = "DeviceCode" /\ apc = "acquiring" /\ ahistory = <<"raised">>
    /\ Count(atrace, "print") = 1 /\ atrace[Len(atrace)].ev = "acquire"

\* ------------------------- SpecPure: the listing records, the options
MaxItems == 2

\* Python's None, where a string can stand
None == "None"

\* The fields of a drive item that a listing can leave out.
OptionalKeys == {"folder", "size", "lastModifiedDateTime", "webUrl"}

\* The item named n that has the optional fields O.
Item(n, O) ==
    [k \in {"name", "id"} \cup O |->
        CASE k = "name" -> n
          [] k = "id" -> (IF n = "a" THEN "id-1" ELSE "id-2")
          [] k = "folder" -> "childCount"
          [] k = "size" -> 1024
          [] k = "lastModifiedDateTime" -> "2024-01-01"
          [] k = "webUrl" -> "https://sp/" ]

Items == {Item(n, O) : n \in {"a", "b"}, O \in SUBSET OptionalKeys}

\* The bodies of a 200 listing response: a value array of at most MaxItems
\* items, or a body without one.
Bodies ==
    {[value |-> items] : items \in UNION {[1..n -> Items] : n \in 0..MaxItems}}
    \cup {[context |-> "none"]}

\* Variant: an item is taken for a folder when it has no size.
MapItem_FolderBySize(item) ==
    [name |-> item["name"],
     is_folder |-> ~Has(item, "size"),
     size |-> Get(item, "size", 0),
     id |-> item["id"],
     last_modified |-> Get(item, "lastModifiedDateTime", None),
     web_url |-> Get(item, "webUrl", None)]

\* the record ls builds for one item
MapItem(item) ==
    [name |-> item["name"],
     is_folder |-> Has(item, "folder"),
     size |-> Get(item, "size", 0),
     id |-> item["id"],
     last_modified |-> Get(item, "lastModifiedDateTime", None),
     web_url |-> Get(item, "webUrl", None)]

\* items = response.json().get("value", []) and the list comprehension
MapListing(body) ==
    LET items == Get(body, "value", <<>>) IN
    [i \in 1..Len(items) |-> MapItem(items[i])]

\* The values an optional constructor argument can take: the default
\* None, the empty string, a credential.
OptionalValues == {None, "", "x"}

Destinations ==
    {[class |-> "LocalDestination"]}
    \cup {[class |-> "S3Destination", key |-> "k", secret |-> "s", token |-> t] :
            t \in OptionalValues}
    \cup {[class |-> "AzureDestination", account_name |-> "n",
           account_key |-> ak, sas_token |-> st] :
            ak \in OptionalValues, st \in OptionalValues}

\* the truth value of a string or None in an if
Truthy(v) == v # None /\ v # ""

\* the dict whose keys are keys, with the values the object d has for them
Options(d, keys) == [k \in keys |-> d[k]]

\* Variant: the two credentials of Azure are tested independently.
GetStorageOptions_BothCredentials(d) ==
    CASE d.class = "LocalDestination" -> Options(d, {})
      [] d.class = "S3Destination" ->
            Options(d, {"key", "secret"}
                       \cup (IF Truthy(d.token) THEN {"token"} ELSE {}))
      [] d.class = "AzureDestination" ->
            Options(d, {"account_name"}
                       \cup (IF Truthy(d.account_key) THEN {"account_key"} ELSE {})
                       \cup (IF Truthy(d.sas_token) THEN {"sas_token"} ELSE {}))

\* get_storage_options of the three destinations
GetStorageOptions(d) ==
    CASE d.class = "LocalDestination" -> Options(d, {})
      [] d.class = "S3Destination" ->
            Options(d, {"key", "secret"}
                       \cup (IF Truthy(d.token) THEN {"token"} ELSE {}))
      [] d.class = "AzureDestination" ->
            Options(d, {"account_name"}
                       \cup (IF Truthy(d.account_key) THEN {"account_key"}
                             ELSE IF Truthy(d.sas_token) THEN {"sas_token"}
                             ELSE {}))

InitPure ==
    /\ WrapperIdle /\ ClientIdle /\ AuthIdle /\ ConcIdle /\ DestIdle
    /\ retries = NoRetries /\ wait_time = 0
    /\ ppc = "ready"
    /\ pin \in {[fn |-> "ls", arg |-> b] : b \in Bodies}
               \cup {[fn |-> "get_storage_options", arg |-> d] : d \in Destinations}
    /\ pout = "none"

pureRest == <<wrapperVars, clientVars, retries, wait_time, authVars, concVars, destVars>>

\* ls builds its result from the body of a 200 response
ListingMapped ==
    /\ ppc = "ready" /\ pin.fn = "ls"
    /\ pout' = MapListing(pin.arg)
    /\ ppc' = "done"
    /\ UNCHANGED <<pureRest, pin>>

\* destination.get_storage_options() is called
OptionsBuilt ==
    /\ ppc = "ready" /\ pin.fn = "get_storage_options"
    /\ pout' = GetStorageOptions(pin.arg)
    /\ ppc' = "done"
    /\ UNCHANGED <<pureRest, pin>>

NextPure == ListingMapped \/ OptionsBuilt

SpecPure == InitPure /\ [][NextPure]_vars

\* ------------------------------------- properties of the pure functions
\* the value array of the listing body, empty when the body has none
ListedItems == IF "value" \in DOMAIN pin.arg THEN pin.arg.value ELSE <<>>

\* C18: ls maps a 200 listing to one record per item of the value array,
\* in the array's order, none dropped or added: name and id copied,
\* is_folder true exactly when the item has a folder field, size the
\* item's or 0, last_modified and web_url the item's or None; a body
\* without value array gives the empty list.
C18_OneRecordPerItem ==
    (ppc = "done" /\ pin.fn = "ls") =>
        /\ Len(pout) = Len(ListedItems)
        /\ \A i \in 1..Len(ListedItems) :
              LET item == ListedItems[i] IN
              /\ DOMAIN pout[i] = {"name", "is_folder", "size", "id",
                                   "last_modified", "web_url"}
              /\ pout[i].name = item.name /\ pout[i].id = item.id
              /\ pout[i].is_folder = ("folder" \in DOMAIN item)
              /\ pout[i].size = (IF "size" \in DOMAIN item THEN item.size ELSE 0)
              /\ pout[i].last_modified =
                    (IF "lastModifiedDateTime" \in DOMAIN item
                     THEN item.lastModifiedDateTime ELSE None)
              /\ pout[i].web_url =
                    (IF "webUrl" \in DOMAIN item THEN item.webUrl ELSE None)

C18_Witness ==
    /\ ppc = "done" /\ pin.fn = "ls" /\ Len(pout) = 2
    /\ pout[1].name = "b" /\ pout[1].is_folder /\ pout[1].size = 1024
    /\ pout[2].name = "a" /\ ~pout[2].is_folder /\ pout[2].size = 0
    /\ pout[2].last_modified = None /\ pout[2].web_url = None

C18_WitnessNoValue ==
    /\ ppc = "done" /\ pin.fn = "ls" /\ "value" \notin DOMAIN pin.arg /\ Len(pout) = 0

\* an optional field was supplied: it was given a non-empty value
Supplied(v) == v \notin {None, ""}

\* C20: get_storage_options returns the required keys and the optional
\* key that was supplied, with the object's values, for every combination
\* of optional fields: the empty mapping for Local; key and secret for
\* S3, with token exactly when one was supplied; account_name for Azure,
\* with account_key exactly when it was supplied and sas_token exactly
\* when it was supplied and account_key was not, never both.
C20_RequiredPlusSupplied ==
    (ppc = "done" /\ pin.fn = "get_storage_options") =>
        LET d == pin.arg IN
        /\ \A k \in DOMAIN pout : pout[k] = d[k]
        /\ (d.class = "LocalDestination") => DOMAIN pout = {}
        /\ (d.class = "S3Destination") =>
              DOMAIN pout = (IF Supplied(d.token) THEN {"key", "secret", "token"}
                             ELSE {"key", "secret"})
        /\ (d.class = "AzureDestination") =>
              /\ "account_name" \in DOMAIN pout
              /\ DOMAIN pout \subseteq {"account_name", "account_key", "sas_token"}
              /\ ("account_key" \in DOMAIN pout) <=> Supplied(d.account_key)
              /\ ("sas_token" \in DOMAIN pout) <=>
                    (Supplied(d.sas_token) /\ ~Supplied(d.account_key))
              /\ ~("account_key" \in DOMAIN pout /\ "sas_token" \in DOMAIN pout)

C20_Witness ==
    /\ ppc = "done" /\ pin.fn = "get_storage_options"
    /\ pin.arg.class = "AzureDestination"
    /\ pin.arg.account_key = "x" /\ pin.arg.sas_token = "x"
    /\ DOMAIN pout = {"account_name", "account_key"}

\* ------------------- SpecConc: two download calls on one client object
ConcMaxBytes == 2
ConcMaxSize == 1

Invocations == {1, 2}

\* Variant: the variables are kept in one place for all the calls (on the
\* client object, or in the decorator's closure).
Cell_OnClient(k) == 1

\* Where invocation k keeps retries, site_id, total_size and its byte
\* count: they are local variables of its own wrapper and download frames;
\* the client object has no attribute that a call assigns.
Cell(k) == k

\* The variables of an invocation that has not run yet.
FreshData == [retries |-> 0, site_retries |-> 0, site_id |-> "none",
              total_size |-> 0, bytes |-> 0,
              result |-> [kind |-> "none", value |-> 0]]

\* The except clause of download's wrapper for the failure e.
ConcOuter(d, e) ==
    IF HandleFailure(e, d.retries, DownloadMaxRetries, DefaultBaseDelay).act = "sleep"
    THEN [pc |-> "sleep", d |-> d]
    ELSE [pc |-> "failed",
          d |-> [d EXCEPT !.result = [kind |-> "raised", value |-> e.status]]]

\* One step of a download call, from the await it is suspended at to the
\* next one, given the response x that ended the await: a status for the
\* site and content requests, the size for the metadata request, the
\* length of the chunk (0: the stream ended) in the chunk loop.
ConcStep(pc_, d, x) ==
    CASE pc_ = "start" ->
            [pc |-> "site",
             d |-> [d EXCEPT !.site_retries = 0, !.site_id = "none",
                             !.total_size = 0, !.bytes = 0]]
      [] pc_ = "site" ->
            IF x = 200 THEN [pc |-> "meta", d |-> [d EXCEPT !.site_id = "id"]]
            ELSE LET e == Exc("HTTPStatusError", x, NoHint, 0, TRUE) IN
                 IF HandleFailure(e, d.site_retries, SiteMaxRetries,
                                  DefaultBaseDelay).act = "sleep"
                 THEN [pc |-> "site_sleep", d |-> d]
                 ELSE ConcOuter(d, e)
      [] pc_ = "site_sleep" ->
            [pc |-> "site", d |-> [d EXCEPT !.site_retries = @ + 1]]
      [] pc_ = "meta" -> [pc |-> "content", d |-> [d EXCEPT !.total_size = x]]
      [] pc_ = "content" ->
            IF x = 200 THEN [pc |-> "read", d |-> d]
            ELSE ConcOuter(d, Exc("HTTPStatusError", x, NoHint, 0, TRUE))
      [] pc_ = "read" ->
            IF x = 0
            THEN [pc |-> "done",
                  d |-> [d EXCEPT !.result = [kind |-> "returned", value |-> d.bytes]]]
            ELSE [pc |-> "read", d |-> [d EXCEPT !.bytes = @ + x]]
      [] pc_ = "sleep" -> [pc |-> "start", d |-> [d EXCEPT !.retries = @ + 1]]
      [] OTHER -> [pc |-> pc_, d |-> d]

\* The responses that can end the await at pc_.
ConcInputs(pc_, d) ==
    CASE pc_ \in {"site", "content"} -> {200, 404, 429}
      [] pc_ = "meta" -> 0..ConcMaxSize
      [] pc_ = "read" -> IF d.bytes < ConcMaxBytes THEN {0, 1} ELSE {0}
      [] pc_ \in {"start", "site_sleep", "sleep"} -> {0}
      [] OTHER -> {}

\* the variables of invocation k
View(k) == locals[Cell(k)]

InitConc ==
    /\ WrapperIdle /\ ClientIdle /\ AuthIdle /\ PureIdle /\ DestIdle
    /\ retries = NoRetries /\ wait_time = 0
    /\ cpc = [k \in Invocations |-> "start"]
    /\ locals = [c \in Invocations |-> FreshData]
    /\ solo = [k \in Invocations |-> [pc |-> "start", d |-> FreshData]]

\* The event loop resumes invocation k with the response x; solo[k] takes
\* the same response with no other invocation around.
Resume(k) ==
    \E x \in ConcInputs(cpc[k], View(k)) :
        LET r == ConcStep(cpc[k], View(k), x) IN
        /\ cpc' = [cpc EXCEPT ![k] = r.pc]
        /\ locals' = [locals EXCEPT ![Cell(k)] = r.d]
        /\ solo' = [solo EXCEPT ![k] = ConcStep(solo[k].pc, solo[k].d, x)]
        /\ UNCHANGED <<wrapperVars, clientVars, retries, wait_time, authVars, pureVars,
                       destVars>>

NextConc == \E k \in Invocations : Resume(k)

SpecConc == InitConc /\ [][NextConc]_vars

StepRank(step) ==
    CASE step \in {"site", "resolved"} -> 1
      [] step \in {"meta", "list"} -> 2
      [] step \in {"content", "accepted"} -> 3
      [] step = "open" -> 4
      [] step = "chunk" -> 5
      [] step = "close" -> 6
      [] step = "summary" -> 7

Did(step) == \E i \in 1..Len(steps) : steps[i] = step

\* every step a before position i
Before(a, i) == \E j \in 1..(i - 1) : steps[j] = a

C22_WitnessReadDf ==
    /\ op = "read_df" /\ pc = "done"
    /\ steps = <<"site", "site", "resolved", "meta", "content", "accepted",
                 "chunk", "summary">>

\* --------------------------------------- retries and the destination file
\* C23: one call of download opens the destination at most once over all
\* its attempts: every attempt that is retried ended before the file was
\* opened, nothing is retried once it was opened, and a call that fails in
\* site resolution or on the status of the content response has not
\* opened it.
C23_SinkOpenedAtMostOnce ==
    /\ sinkOpens <= 1
    /\ sinkOpens = (IF Did("open") THEN 1 ELSE 0)
    /\ sinkOpens >= 1 =>
          /\ op = "download"
          /\ pc \in {"read", "write", "done", "failed"}
          /\ sleepFrame = "none"
    /\ pc \in {"start", "sleep", "site", "meta", "content"} => sinkOpens = 0
    /\ (pc = "failed" /\ ~Did("accepted")) => sinkOpens = 0
    /\ (pc = "failed" /\ failure.kind = "HTTPStatusError") => sinkOpens = 0

\* C23 happens: a download was retried twice, after a 429 of the content
\* request, then opened the file once and wrote the body.
C23_Witness ==
    /\ op = "download" /\ pc = "done" /\ retries["outer"] = 2
    /\ sinkOpens = 1 /\ Len(sink) = 2

\* C23 happens: every attempt of a download got a 429 from the content
\* request; the call failed and the file was never opened.
C23_WitnessExhausted ==
    /\ op = "download" /\ pc = "failed" /\ retries["outer"] = DownloadMaxRetries
    /\ failure.kind = "HTTPStatusError" /\ failure.status = 429
    /\ response.req = "content"
    /\ sinkOpens = 0

\* ------------------------------ SpecCalls: calls that are allowed to go on
\* A call of a decorated function or of a public operation of the client,
\* where every attempt and every asyncio.sleep that was started ends.
\* The file names of these calls: one that read_df can read, one it
\* cannot (the other operations do not look at the name).
CallPaths == {<<"a", ".", "C", "s", "v">>, <<"a", ".", "t", "x", "t">>}

InitCalls == InitRetry \/ (Init /\ file_path \in CallPaths)

NextCalls == NextRetry \/ Next

SpecCalls == InitCalls /\ [][NextCalls]_vars /\ WF_vars(NextCalls)

\* the call has returned a result or propagated a failure
Ended == wpc \in {"returned", "raised"} \/ pc \in {"done", "failed"}

\* every attempt so far was answered 429 with a Retry-After float() reads
AllRateLimited ==
    \A i \in 1..Len(attempts) :
        /\ attempts[i].kind = "HTTPStatusError" /\ attempts[i].status = 429
        /\ WaitTime(attempts[i], base_delay, 0).ok

\* The while test holds whenever it is evaluated, in every wrapper frame
\* (no call after the loop), and the attempts and requests are bounded.
Bounded ==
    /\ wpc # "idle" =>
          /\ retries["func"] <= max_retries
          /\ Len(attempts) <= max_retries + 1
          /\ Len(attempts) = retries["func"] + (IF wpc = "loop" THEN 0 ELSE 1)
          /\ (wpc = "raised" /\ AllRateLimited) => Len(attempts) = max_retries + 1
    /\ pc # "idle" =>
          /\ \A f \in Frames : InLoop(f)
          /\ attemptSiteReqs <= SiteMaxRetries + 1
          /\ metaReqs <= 1 /\ listReqs <= 1
          /\ requests <= SiteMaxRetries + 3
          /\ siteReqs <= (retries["outer"] + 1) * (SiteMaxRetries + 1)

\* C24: every call of a decorated function or public operation ends, by
\* a result or a failure, when its attempts and sleeps end; answered 429
\* every time, the wrapper gives up after max_retries + 1 attempts, a
\* public operation after a bounded number of requests; the while loop is
\* never left by its test, so the call below the loop is never made.
C24_CallsEnd == <>Ended /\ []Bounded

\* C24 happens: a download answered 429 on every site-resolution request
\* gave up after all attempts of both wrappers.
C24_Witness ==
    /\ op = "download" /\ pc = "failed"
    /\ retries["outer"] = DownloadMaxRetries
    /\ siteReqs = (DownloadMaxRetries + 1) * (SiteMaxRetries + 1)
    /\ failure.kind = "HTTPStatusError" /\ failure.status = 429

\* C24 happens for the wrapper alone: max_retries + 1 attempts, all 429.
C24_WitnessWrapper ==
    /\ wpc = "raised" /\ max_retries = MaxRetriesBound
    /\ Len(attempts) = max_retries + 1 /\ AllRateLimited

\* ------------------------------- SpecDest: a destination and its callers
\* The calls of get_storage_options made on one destination.
MaxDestCalls == 3

destRest == <<wrapperVars, clientVars, retries, wait_time, authVars, pureVars, concVars>>

\* the items of a dict, as a set of (key, value) pairs
AsPairs(f) == {<<k, f[k]>> : k \in DOMAIN f}

\* Variant: the options are built once and the same dict is handed out by
\* every call.
ResultCell_Cached(h) == 1

\* The dict object a call returns: options = {...} and return {} are dict
\* displays, so every call creates a new object, after those in h.
ResultCell(h) == Len(h) + 1

\* One call of get_storage_options on the object with fields d while the
\* dict objects h exist: the fields after the call (no method assigns to
\* self), the object returned and the objects that exist afterwards.
StorageOptionsCall(d, h) ==
    LET ref == ResultCell(h) IN
    [self |-> d,
     ref |-> ref,
     heap |-> IF ref > Len(h) THEN Append(h, AsPairs(GetStorageOptions(d))) ELSE h]

\* What a caller can do to a dict it holds: d["extra"] = "v", d.clear(),
\* or overwriting every value.
Changes(items) ==
    {items \cup {<<"extra", "v">>}, {}, {<<p[1], "changed">> : p \in items}}

\* a dict returned to the caller no longer has the items it was returned with
SomeChanged ==
    \E j \in 1..Len(returned) : heap[returned[j].cell] # snaps[j]

InitDest ==
    /\ WrapperIdle /\ ClientIdle /\ AuthIdle /\ PureIdle /\ ConcIdle
    /\ retries = NoRetries /\ wait_time = 0
    /\ destination \in Destinations
    /\ heap = <<>> /\ returned = <<>> /\ snaps = <<>> /\ opened = <<>>

\* the caller calls destination.get_storage_options() and keeps the result
CallGetStorageOptions ==
    /\ Len(returned) < MaxDestCalls
    /\ LET r == StorageOptionsCall(destination, heap) IN
        /\ destination' = r.self
        /\ heap' = r.heap
        /\ returned' = Append(returned, [cell |-> r.ref, by |-> "caller",
                                         afterChange |-> SomeChanged])
        /\ snaps' = Append(snaps, r.heap[r.ref])
    /\ UNCHANGED <<opened, destRest>>

\* the caller changes a dict that a call returned to it
CallerChanges ==
    /\ \E i \in 1..Len(returned) :
        /\ returned[i].by = "caller"
        /\ \E c \in Changes(heap[returned[i].cell]) :
            /\ c # heap[returned[i].cell]
            /\ heap' = [heap EXCEPT ![returned[i].cell] = c]
    /\ UNCHANGED <<destination, returned, snaps, opened, destRest>>

\* download(file_path, destination): storage_options =
\* destination.get_storage_options(), then fsspec.open(dest_path, "wb",
\* **storage_options), which receives the items as keyword arguments.
DownloadUses ==
    /\ Len(returned) < MaxDestCalls
    /\ LET r == StorageOptionsCall(destination, heap) IN
        /\ destination' = r.self
        /\ heap' = r.heap
        /\ returned' = Append(returned, [cell |-> r.ref, by |-> "download",
                                         afterChange |-> SomeChanged])
        /\ snaps' = Append(snaps, r.heap[r.ref])
        /\ opened' = Append(opened, r.heap[r.ref])
    /\ UNCHANGED destRest

NextDest == CallGetStorageOptions \/ CallerChanges \/ DownloadUses

SpecDest == InitDest /\ [][NextDest]_vars

\* all calls made so far returned equal mappings, the mapping the fields
\* of the destination determine; for LocalDestination the empty one
EqualResults ==
    /\ \A i, j \in 1..Len(snaps) : snaps[i] = snaps[j]
    /\ \A i \in 1..Len(snaps) : snaps[i] = AsPairs(GetStorageOptions(destination))
    /\ \A i \in 1..Len(opened) : opened[i] = AsPairs(GetStorageOptions(destination))
    /\ destination.class = "LocalDestination" =>
            \A i \in 1..Len(snaps) : snaps[i] = {}

====
